---- MODULE Spec2Model ----
(***************************************************************************)
(* fileguard: content-type guard for uploads (src/fileguard.py).           *)
(*                                                                         *)
(* Two callers (threads) invoke detect_file_type and validate_upload; the  *)
(* functions are modelled statement by statement, so that calls interleave *)
(* at the points where Python can switch threads.  The module-level        *)
(* DEFAULT_ALLOWLIST is a plain `set`, i.e. a mutable object every caller  *)
(* can reach; the caller actions add/discard/clear on it are part of the   *)
(* model.  libmagic (magic.from_buffer) is an external library: its        *)
(* behaviour is fixed by the condition of the installed library/database,  *)
(* chosen at Init and never changed.                                       *)
(*                                                                         *)
(* Python values:                                                          *)
(*   bytes  -> sequence of byte values                                     *)
(*   str    -> string                                                      *)
(*   set    -> duplicate-free sequence (the set's iteration order)         *)
(*   None   -> the record NoneArg                                          *)
(***************************************************************************)
EXTENDS Integers, Sequences, FiniteSets, TLC

VARIABLES
    call,               \* call[t]: the frame of thread t's current call
    result,             \* result[t]: what the finished call gave its caller
    DEFAULT_ALLOWLIST,  \* the module-level set object
    mutations,          \* number of caller mutations of DEFAULT_ALLOWLIST so far
    magicState          \* condition of the installed libmagic

vars == <<call, result, DEFAULT_ALLOWLIST, mutations, magicState>>

Threads == {"t1", "t2"}

\* How many times callers mutate the shared default container in one run.
MaxMutations == 1

-----------------------------------------------------------------------------
(* Generic helpers *)

Range(s) == {s[i] : i \in 1..Len(s)}

RECURSIVE Without(_, _)
Without(s, x) ==
    IF s = <<>> THEN <<>>
    ELSE IF Head(s) = x THEN Without(Tail(s), x)
    ELSE <<Head(s)>> \o Without(Tail(s), x)

\* Python `sub in s` for strings
Contains(s, sub) ==
    \E i \in 1..(Len(s) - Len(sub) + 1) : SubSeq(s, i, i + Len(sub) - 1) = sub

-----------------------------------------------------------------------------
(* Exceptions: class FileGuardError(Exception), InvalidFileError(FileGuardError),
   InvalidConfigError(FileGuardError); magic.MagicException(Exception) *)

Bases(cls) ==
    CASE cls = "InvalidFileError"   -> {"InvalidFileError", "FileGuardError", "Exception"}
      [] cls = "InvalidConfigError" -> {"InvalidConfigError", "FileGuardError", "Exception"}
      [] cls = "FileGuardError"     -> {"FileGuardError", "Exception"}
      [] cls = "MagicException"     -> {"MagicException", "Exception"}
      [] OTHER                      -> {cls, "Exception"}

\* `except handler:` catches an exception of class cls
IsInstance(cls, handler) == handler \in Bases(cls)

NoResult == [kind |-> "none"]
Raise(exc, msg) == [kind |-> "raise", exc |-> exc, msg |-> msg]
Return(v) == [kind |-> "return", value |-> v]

-----------------------------------------------------------------------------
(* Inputs *)

\* Leading bytes of the buffers the tests use, and an unrecognised one
PNG_HEADER == <<137, 80, 78, 71>>
EXE_HEADER == <<77, 90>>
JUNK_BYTES == <<0>>
Blobs == {<<>>, PNG_HEADER, EXE_HEADER, JUNK_BYTES}

NoneArg == [none |-> TRUE, items |-> <<>>]
SetArg(items) == [none |-> FALSE, items |-> items]

AllowlistArgs ==
    { NoneArg,
      SetArg(<<>>),
      SetArg(<<"image/png", "image/jpeg">>),
      SetArg(<<"application/x-dosexec", "application/pdf">>) }

\* another default label in the signature
DefaultContextFile == "file"

DefaultContext == "upload"
Contexts == {DefaultContext, "profile-photo"}

\* DEFAULT_ALLOWLIST as the module defines it
InitialDefaultAllowlist ==
    << "image/png", "image/jpeg", "image/gif", "image/webp",
       "video/mp4", "video/webm",
       "application/json", "text/plain", "text/vtt",
       "application/pdf" >>

-----------------------------------------------------------------------------
(* libmagic *)

MagicStates == {"ok", "no_mime", "corrupt_db", "broken"}

\* byte-signature matching of a working libmagic
Sniff(blob) ==
    IF Len(blob) >= 4 /\ SubSeq(blob, 1, 4) = <<137, 80, 78, 71>> THEN "image/png"
    ELSE IF Len(blob) >= 2 /\ SubSeq(blob, 1, 2) = <<77, 90>> THEN "application/x-dosexec"
    ELSE "application/octet-stream"

\* magic.from_buffer(blob, mime=True)
magic_from_buffer(state, blob) ==
    CASE state = "ok"         -> Return(Sniff(blob))
      [] state = "no_mime"    -> Return("")
      [] state = "corrupt_db" -> Raise("MagicException", "could not load magic database")
      [] state = "broken"     -> Raise("OSError", "failed to load libmagic")

-----------------------------------------------------------------------------
(* State *)

IdleCall ==
    [ pc |-> "idle", op |-> "none", blob |-> <<>>, allowlistArg |-> NoneArg,
      context |-> DefaultContext, allowlist |-> "unbound", magic |-> NoResult,
      magicCalls |-> 0, inner |-> NoResult, detected |-> "", allowed |-> FALSE,
      trace |-> <<>>, touched |-> FALSE, contextGiven |-> FALSE,
      handler |-> "none", filePresent |-> TRUE, response |-> NoResult ]

Init ==
    /\ call = [t \in Threads |-> IdleCall]
    /\ result = [t \in Threads |-> NoResult]
    /\ DEFAULT_ALLOWLIST = InitialDefaultAllowlist
    /\ mutations = 0
    /\ magicState \in MagicStates

-----------------------------------------------------------------------------
(* fileguard.py, statement by statement *)

\* the frames, with the statement ev of thread t's call recorded as executed
Traced(t, ev) == [call EXCEPT ![t].trace = Append(@, ev)]

\* `raise X(msg)` inside a function whose callers have no handler: the call ends
Raises(t, c, exc) ==
    /\ call' = [c EXCEPT ![t].pc = "done"]
    /\ result' = [result EXCEPT ![t] = exc]

\* `not blob`
IsEmptyBlob(blob) == Len(blob) = 0

\* validate_upload without its own empty-buffer check
CheckBlobSkipped(blob) == NoResult

\* validate_upload, line 74-75
CheckBlob(blob) ==
    IF IsEmptyBlob(blob)
    THEN Raise("InvalidFileError", "Cannot validate empty file")
    ELSE NoResult

\* `if not allowlist:` instead of `if allowlist is None:`
ResolveAllowlistFalsy(arg) ==
    IF arg.none \/ Len(arg.items) = 0 THEN Return("DEFAULT_ALLOWLIST") ELSE Return("arg")

\* validate_upload, lines 77-80: the object the local name `allowlist` is bound to
ResolveAllowlist(arg) ==
    IF arg.none THEN Return("DEFAULT_ALLOWLIST")
    ELSE IF Len(arg.items) = 0
         THEN Raise("InvalidConfigError", "Allowlist cannot be empty")
         ELSE Return("arg")

\* detect_file_type without the empty-buffer check
CheckDetectBlobSkipped(blob) == NoResult

\* detect_file_type, lines 44-45
CheckDetectBlob(blob) ==
    IF IsEmptyBlob(blob)
    THEN Raise("InvalidFileError", "Cannot detect type of empty file")
    ELSE NoResult

\* a classifier error answered with the generic type instead of a failure
TranslateMagicFailOpen(r) ==
    IF r.kind = "return" THEN r ELSE Return("application/octet-stream")

\* every classifier error raised as FileGuardError, the library's own included
TranslateMagicNoLibraryCase(r) ==
    IF r.kind = "return" THEN r
    ELSE Raise("FileGuardError", "Magic library error: " \o r.msg)

\* the classifier's generic answer refined by the detector into a text type
TranslateMagicRefined(r) ==
    IF r.kind = "return"
    THEN IF r.value = "application/octet-stream" THEN Return("text/plain") ELSE r
    ELSE IF IsInstance(r.exc, "MagicException")
         THEN Raise("InvalidFileError", "Failed to detect file type: " \o r.msg)
         ELSE Raise("FileGuardError", "Magic library error: " \o r.msg)

\* only `except magic.MagicException`, no `except Exception` clause
TranslateMagicOnlyLibrary(r) ==
    IF r.kind = "return" THEN r
    ELSE IF IsInstance(r.exc, "MagicException")
         THEN Raise("InvalidFileError", "Failed to detect file type: " \o r.msg)
         ELSE r

\* detect_file_type, lines 47-52: try / except around magic.from_buffer
TranslateMagic(r) ==
    IF r.kind = "return" THEN r
    ELSE IF IsInstance(r.exc, "MagicException")
         THEN Raise("InvalidFileError", "Failed to detect file type: " \o r.msg)
         ELSE IF IsInstance(r.exc, "Exception")
              THEN Raise("FileGuardError", "Magic library error: " \o r.msg)
              ELSE r

\* line 82 inside `try: ... except FileGuardError as e: raise FileGuardError(...)`
WrapDetectFailure(exc) == Raise("FileGuardError", "Validation failed: " \o exc.msg)

\* validate_upload, line 82: no try/except around the call of detect_file_type
PropagateDetectFailure(exc) == exc

\* the local name `allowlist` kept in one module-level slot that every call binds
DerefShared(t) ==
    LET others == {u \in Threads \ {t} : call[u].allowlist # "unbound"} IN
    IF others = {}
    THEN IF call[t].allowlist = "DEFAULT_ALLOWLIST"
         THEN DEFAULT_ALLOWLIST
         ELSE call[t].allowlistArg.items
    ELSE LET u == CHOOSE u \in others : TRUE IN
         IF call[u].allowlist = "DEFAULT_ALLOWLIST"
         THEN DEFAULT_ALLOWLIST
         ELSE call[u].allowlistArg.items

\* the set object the local name `allowlist` of thread t refers to
Deref(t) ==
    IF call[t].allowlist = "DEFAULT_ALLOWLIST"
    THEN DEFAULT_ALLOWLIST
    ELSE call[t].allowlistArg.items

\* the caller's allow-list merged with the default one
IsAllowedMerged(detected, allowlist) ==
    detected \in Range(allowlist) \cup Range(DEFAULT_ALLOWLIST)

\* the generic type treated as unknown content and never admitted
IsAllowedKnownTypesOnly(detected, allowlist) ==
    detected # "application/octet-stream" /\ detected \in Range(allowlist)

\* validate_upload, line 83: `detected in allowlist`
IsAllowed(detected, allowlist) == detected \in Range(allowlist)

\* the f-string with the default label in place of the context argument
ReasonFixedLabel(detected, allowed, context) ==
    "Type '" \o detected \o "' " \o (IF allowed THEN "permitted" ELSE "blocked")
        \o " for " \o "upload"

\* the f-string with the two verdict words exchanged
ReasonVerdictSwapped(detected, allowed, context) ==
    "Type '" \o detected \o "' " \o (IF allowed THEN "blocked" ELSE "permitted")
        \o " for " \o context

\* validate_upload, line 89: the f-string
Reason(detected, allowed, context) ==
    "Type '" \o detected \o "' " \o (IF allowed THEN "permitted" ELSE "blocked")
        \o " for " \o context

\* a blocked type raised instead of returned
FileTypeResultOrRaise(allowed, detected, allowlist, context) ==
    IF allowed
    THEN Return([ allowed |-> allowed,
                  detected_type |-> detected,
                  expected_types |-> allowlist,
                  reason |-> Reason(detected, allowed, context) ])
    ELSE Raise("InvalidFileError", Reason(detected, allowed, context))

\* a Decision that admits nothing when the call site gave no label
FileTypeResultLabelRequired(allowed, detected, allowlist, context) ==
    Return([ allowed |-> allowed /\ context # "",
             detected_type |-> detected,
             expected_types |-> allowlist,
             reason |-> Reason(detected, allowed /\ context # "", context) ])

\* validate_upload, lines 85-90
FileTypeResult(allowed, detected, allowlist, context) ==
    Return([ allowed |-> allowed,
             detected_type |-> detected,
             expected_types |-> allowlist,
             reason |-> Reason(detected, allowed, context) ])

\* detect_file_type(blob), lines 44-52, run from entry to exit with nothing in between
DetectAlone(state, blob) ==
    LET c == CheckDetectBlob(blob) IN
    IF c.kind = "raise" THEN c
    ELSE TranslateMagic(magic_from_buffer(state, blob))

\* validate_upload(blob, arg, context), lines 74-90, run from entry to exit with
\* nothing in between, DEFAULT_ALLOWLIST holding `default`
ValidateAlone(state, default, blob, arg, context) ==
    LET c == CheckBlob(blob) IN
    IF c.kind = "raise" THEN c
    ELSE LET r == ResolveAllowlist(arg) IN
         IF r.kind = "raise" THEN r
         ELSE LET allowlist == IF r.value = "DEFAULT_ALLOWLIST" THEN default ELSE arg.items
                  d == DetectAlone(state, blob)
              IN  IF d.kind = "raise" THEN PropagateDetectFailure(d)
                  ELSE FileTypeResult(IsAllowed(d.value, allowlist), d.value,
                                      allowlist, context)

\* a caller calls detect_file_type(b)
CallDetect(t, b) ==
    /\ call[t].pc = "idle"
    /\ call' = [call EXCEPT ![t] =
                  [IdleCall EXCEPT !.pc = "d44", !.op = "detect_file_type", !.blob = b]]
    /\ result' = [result EXCEPT ![t] = NoResult]
    /\ UNCHANGED <<DEFAULT_ALLOWLIST, mutations, magicState>>

\* a caller calls validate_upload(b, a, c); a = NoneArg is the default
CallValidate(t, b, a, c) ==
    /\ call[t].pc = "idle"
    /\ call' = [call EXCEPT ![t] =
                  [IdleCall EXCEPT !.pc = "v74", !.op = "validate_upload", !.blob = b,
                                   !.allowlistArg = a, !.context = c,
                                   !.contextGiven = TRUE]]
    /\ result' = [result EXCEPT ![t] = NoResult]
    /\ UNCHANGED <<DEFAULT_ALLOWLIST, mutations, magicState>>

\* a caller calls validate_upload(b, a) and passes no context: the parameter
\* takes the default of the signature
CallValidateNoContext(t, b, a) ==
    /\ call[t].pc = "idle"
    /\ call' = [call EXCEPT ![t] =
                  [IdleCall EXCEPT !.pc = "v74", !.op = "validate_upload", !.blob = b,
                                   !.allowlistArg = a, !.context = DefaultContext]]
    /\ result' = [result EXCEPT ![t] = NoResult]
    /\ UNCHANGED <<DEFAULT_ALLOWLIST, mutations, magicState>>

\* line 74
V74(t) ==
    /\ call[t].pc = "v74"
    /\ LET r == CheckBlob(call[t].blob)
           c == Traced(t, "buffer_check")
       IN  IF r.kind = "raise"
           THEN Raises(t, c, r)
           ELSE call' = [c EXCEPT ![t].pc = "v77"] /\ UNCHANGED result
    /\ UNCHANGED <<DEFAULT_ALLOWLIST, mutations, magicState>>

\* lines 77-80
V77(t) ==
    /\ call[t].pc = "v77"
    /\ LET r == ResolveAllowlist(call[t].allowlistArg)
           c == Traced(t, "allowlist_check")
       IN  IF r.kind = "raise"
           THEN Raises(t, c, r)
           ELSE /\ call' = [c EXCEPT ![t].pc = "v82", ![t].allowlist = r.value]
                /\ UNCHANGED result
    /\ UNCHANGED <<DEFAULT_ALLOWLIST, mutations, magicState>>

\* line 82: enter detect_file_type(blob)
V82(t) ==
    /\ call[t].pc = "v82"
    /\ call' = [call EXCEPT ![t].pc = "d44"]
    /\ UNCHANGED <<result, DEFAULT_ALLOWLIST, mutations, magicState>>

\* detect_file_type ends with outcome r in frames c: r goes to the caller, or
\* back into validate_upload at line 82
DetectEnds(t, c, r) ==
    IF c[t].op = "detect_file_type"
    THEN /\ call' = [c EXCEPT ![t].pc = "done"]
         /\ result' = [result EXCEPT ![t] = r]
    ELSE IF r.kind = "raise"
         THEN /\ call' = [c EXCEPT ![t].pc = "done", ![t].inner = r]
              /\ result' = [result EXCEPT ![t] = PropagateDetectFailure(r)]
         ELSE /\ call' = [c EXCEPT ![t].pc = "v83", ![t].inner = r,
                                   ![t].detected = r.value]
              /\ UNCHANGED result

\* lines 44-45
D44(t) ==
    /\ call[t].pc = "d44"
    /\ LET r == CheckDetectBlob(call[t].blob)
           c == Traced(t, "detect_buffer_check")
       IN  IF r.kind = "raise"
           THEN DetectEnds(t, c, r)
           ELSE call' = [c EXCEPT ![t].pc = "d48"] /\ UNCHANGED result
    /\ UNCHANGED <<DEFAULT_ALLOWLIST, mutations, magicState>>

\* lines 47-52 with one more attempt after a classifier error
D48RetryOnce(t) ==
    /\ call[t].pc = "d48"
    /\ LET m == magic_from_buffer(magicState, call[t].blob)
           r == TranslateMagic(m)
           c == [Traced(t, "classify") EXCEPT ![t].magic = m, ![t].magicCalls = @ + 1]
       IN  IF r.kind = "raise" /\ call[t].magicCalls = 0
           THEN call' = c /\ UNCHANGED result
           ELSE DetectEnds(t, c, r)
    /\ UNCHANGED <<DEFAULT_ALLOWLIST, mutations, magicState>>

\* lines 47-52
D48(t) ==
    /\ call[t].pc = "d48"
    /\ LET m == magic_from_buffer(magicState, call[t].blob)
           r == TranslateMagic(m)
           c == [Traced(t, "classify") EXCEPT ![t].magic = m, ![t].magicCalls = @ + 1]
       IN  DetectEnds(t, c, r)
    /\ UNCHANGED <<DEFAULT_ALLOWLIST, mutations, magicState>>

\* line 83
V83(t) ==
    /\ call[t].pc = "v83"
    /\ call' = [call EXCEPT ![t].pc = "v85",
                            ![t].allowed = IsAllowed(call[t].detected, Deref(t))]
    /\ UNCHANGED <<result, DEFAULT_ALLOWLIST, mutations, magicState>>

\* lines 85-90 followed by `allowlist.add(detected)`
V85AddsDetected(t) ==
    /\ call[t].pc = "v85"
    /\ result' = [result EXCEPT ![t] =
                    FileTypeResult(call[t].allowed, call[t].detected, Deref(t),
                                   call[t].context)]
    /\ LET grown == IF call[t].detected \in Range(Deref(t))
                    THEN Deref(t)
                    ELSE Append(Deref(t), call[t].detected)
       IN  IF call[t].allowlist = "DEFAULT_ALLOWLIST"
           THEN /\ DEFAULT_ALLOWLIST' = grown
                /\ call' = [call EXCEPT ![t].pc = "done"]
           ELSE /\ call' = [call EXCEPT ![t].pc = "done", ![t].allowlistArg.items = grown]
                /\ UNCHANGED DEFAULT_ALLOWLIST
    /\ UNCHANGED <<mutations, magicState>>

\* lines 85-90
V85(t) ==
    /\ call[t].pc = "v85"
    /\ call' = [call EXCEPT ![t].pc = "done"]
    /\ result' = [result EXCEPT ![t] =
                    FileTypeResult(call[t].allowed, call[t].detected, Deref(t),
                                   call[t].context)]
    /\ UNCHANGED <<DEFAULT_ALLOWLIST, mutations, magicState>>

-----------------------------------------------------------------------------
(* What a caller can do besides calling *)

\* the caller is through with the outcome of its call (an upload handler: the
\* response is sent)
Drop(t) ==
    /\ call[t].pc = (IF call[t].handler = "none" THEN "done" ELSE "responded")
    /\ call' = [call EXCEPT ![t] = IdleCall]
    /\ result' = [result EXCEPT ![t] = NoResult]
    /\ UNCHANGED <<DEFAULT_ALLOWLIST, mutations, magicState>>

\* decision.expected_types.append(x) with expected_types bound to the allow-list
\* object itself instead of list(allowlist): the append lands in that object
ExpectedTypesAppendThroughAlias(t, x) ==
    /\ call[t].pc = "done"
    /\ call[t].op = "validate_upload"
    /\ result[t].kind = "return"
    /\ ~call[t].touched
    /\ result' = [result EXCEPT ![t].value.expected_types = Append(@, x)]
    /\ IF call[t].allowlist = "DEFAULT_ALLOWLIST"
       THEN /\ DEFAULT_ALLOWLIST' = Append(Without(DEFAULT_ALLOWLIST, x), x)
            /\ call' = [call EXCEPT ![t].touched = TRUE]
       ELSE /\ call' = [call EXCEPT ![t].touched = TRUE,
                                    ![t].allowlistArg.items = Append(Without(@, x), x)]
            /\ UNCHANGED DEFAULT_ALLOWLIST
    /\ UNCHANGED <<mutations, magicState>>

\* decision.expected_types.append(x) on the Decision the caller got (a caller
\* does it at most once to a Decision)
ExpectedTypesAppend(t, x) ==
    /\ call[t].pc = "done"
    /\ call[t].op = "validate_upload"
    /\ result[t].kind = "return"
    /\ ~call[t].touched
    /\ call' = [call EXCEPT ![t].touched = TRUE]
    /\ result' = [result EXCEPT ![t].value.expected_types = Append(@, x)]
    /\ UNCHANGED <<DEFAULT_ALLOWLIST, mutations, magicState>>

AddableTypes == {"application/x-dosexec"}
DiscardableTypes == {"image/png"}

\* fileguard.DEFAULT_ALLOWLIST.add(x)
DefaultAdd(x) ==
    /\ mutations < MaxMutations
    /\ x \notin Range(DEFAULT_ALLOWLIST)
    /\ DEFAULT_ALLOWLIST' = Append(DEFAULT_ALLOWLIST, x)
    /\ mutations' = mutations + 1
    /\ UNCHANGED <<call, result, magicState>>

\* fileguard.DEFAULT_ALLOWLIST.discard(x)
DefaultDiscard(x) ==
    /\ mutations < MaxMutations
    /\ x \in Range(DEFAULT_ALLOWLIST)
    /\ DEFAULT_ALLOWLIST' = Without(DEFAULT_ALLOWLIST, x)
    /\ mutations' = mutations + 1
    /\ UNCHANGED <<call, result, magicState>>

\* fileguard.DEFAULT_ALLOWLIST.clear()
DefaultClear ==
    /\ mutations < MaxMutations
    /\ DEFAULT_ALLOWLIST # <<>>
    /\ DEFAULT_ALLOWLIST' = <<>>
    /\ mutations' = mutations + 1
    /\ UNCHANGED <<call, result, magicState>>

-----------------------------------------------------------------------------
(* examples/django_fileguard.py and examples/fastapi_fileguard.py: upload_file *)

Handlers == {"django", "fastapi"}

\* the context label each handler passes to validate_upload
HandlerContext(h) == IF h = "django" THEN "django-upload" ELSE "user-upload"

Response(status, accepted, type, error) ==
    [kind |-> "response", status |-> status, accepted |-> accepted,
     type |-> type, error |-> error]

\* upload_file without the `if not result.allowed` branch
HandlerResponseNoVerdictCheck(h, outcome) ==
    IF outcome.kind = "return"
    THEN Response(200, TRUE, outcome.value.detected_type, "")
    ELSE IF IsInstance(outcome.exc, "InvalidFileError")
         THEN Response(400, FALSE, "", "Invalid file: " \o outcome.msg)
         ELSE IF IsInstance(outcome.exc, "InvalidConfigError")
              THEN Response(500, FALSE, "", "Configuration error: " \o outcome.msg)
              ELSE Response(500, FALSE, "", "Internal Server Error")

\* upload_file with one `except FileGuardError` clause answering 400
HandlerResponseOneClause(h, outcome) ==
    IF outcome.kind = "return"
    THEN IF ~outcome.value.allowed
         THEN Response(400, FALSE, "", outcome.value.reason)
         ELSE Response(200, TRUE, outcome.value.detected_type, "")
    ELSE IF IsInstance(outcome.exc, "FileGuardError")
         THEN Response(400, FALSE, "", "Invalid file: " \o outcome.msg)
         ELSE Response(500, FALSE, "", "Internal Server Error")

\* upload_file that lets a file through when its content could not be analysed
HandlerResponseFailOpen(h, outcome) ==
    IF outcome.kind = "return"
    THEN IF ~outcome.value.allowed
         THEN Response(400, FALSE, "", outcome.value.reason)
         ELSE Response(200, TRUE, outcome.value.detected_type, "")
    ELSE IF IsInstance(outcome.exc, "InvalidFileError")
         THEN Response(200, TRUE, "", "")
         ELSE IF IsInstance(outcome.exc, "InvalidConfigError")
              THEN Response(500, FALSE, "", "Configuration error: " \o outcome.msg)
              ELSE Response(500, FALSE, "", "Internal Server Error")

\* what upload_file answers to the outcome of its validate_upload call: django
\* lines 15-22, fastapi lines 13-20; an exception no clause catches leaves the
\* handler and the framework answers 500
HandlerResponse(h, outcome) ==
    IF outcome.kind = "return"
    THEN IF ~outcome.value.allowed
         THEN Response(400, FALSE, "", outcome.value.reason)
         ELSE Response(200, TRUE, outcome.value.detected_type, "")
    ELSE IF IsInstance(outcome.exc, "InvalidFileError")
         THEN Response(400, FALSE, "", "Invalid file: " \o outcome.msg)
         ELSE IF IsInstance(outcome.exc, "InvalidConfigError")
              THEN Response(500, FALSE, "", "Configuration error: " \o outcome.msg)
              ELSE Response(500, FALSE, "", "Internal Server Error")

\* a request reaches upload_file of handler h; present = FALSE: no "file" part
\* (fastapi answers that request itself, before upload_file)
CallHandler(t, h, present, b) ==
    /\ call[t].pc = "idle"
    /\ h = "fastapi" => present
    /\ ~present => b = <<>>
    /\ call' = [call EXCEPT ![t] =
                  [IdleCall EXCEPT !.pc = "h_entry", !.handler = h,
                                   !.filePresent = present, !.blob = b]]
    /\ result' = [result EXCEPT ![t] = NoResult]
    /\ UNCHANGED <<DEFAULT_ALLOWLIST, mutations, magicState>>

\* django lines 7-13, fastapi lines 8-11: up to the call of validate_upload
HandlerEntry(t) ==
    /\ call[t].pc = "h_entry"
    /\ IF call[t].handler = "django" /\ ~call[t].filePresent
       THEN call' = [call EXCEPT ![t].pc = "responded",
                                 ![t].response = Response(400, FALSE, "", "No file provided")]
       ELSE call' = [call EXCEPT ![t].pc = "v74", ![t].op = "validate_upload",
                                 ![t].context = HandlerContext(call[t].handler),
                                 ![t].contextGiven = TRUE]
    /\ UNCHANGED <<result, DEFAULT_ALLOWLIST, mutations, magicState>>

\* validate_upload has returned or raised into upload_file
HandlerRespond(t) ==
    /\ call[t].pc = "done"
    /\ call[t].handler # "none"
    /\ call' = [call EXCEPT ![t].pc = "responded",
                            ![t].response = HandlerResponse(call[t].handler, result[t])]
    /\ UNCHANGED <<result, DEFAULT_ALLOWLIST, mutations, magicState>>

-----------------------------------------------------------------------------

Next ==
    \/ \E t \in Threads, b \in Blobs : CallDetect(t, b)
    \/ \E t \in Threads, b \in Blobs, a \in AllowlistArgs, c \in Contexts :
          CallValidate(t, b, a, c)
    \/ \E t \in Threads : V74(t)
    \/ \E t \in Threads : V77(t)
    \/ \E t \in Threads : V82(t)
    \/ \E t \in Threads : D44(t)
    \/ \E t \in Threads : D48(t)
    \/ \E t \in Threads : V83(t)
    \/ \E t \in Threads : V85(t)
    \/ \E t \in Threads : Drop(t)
    \/ \E t \in Threads, x \in AddableTypes : ExpectedTypesAppend(t, x)
    \/ \E x \in AddableTypes : DefaultAdd(x)
    \/ \E x \in DiscardableTypes : DefaultDiscard(x)
    \/ DefaultClear

Spec == Init /\ [][Next]_vars

-----------------------------------------------------------------------------
(* Vocabulary of the properties *)

Ended(t) == call[t].pc = "done"
InValidate(t) == call[t].op = "validate_upload"
InDetect(t) == call[t].op = "detect_file_type"
EmptyBuffer(t) == call[t].blob = <<>>
EmptyExplicitAllowlist(t) == ~call[t].allowlistArg.none /\ call[t].allowlistArg.items = <<>>
NonEmptyExplicitAllowlist(t) == ~call[t].allowlistArg.none /\ call[t].allowlistArg.items # <<>>
ClassifierErrored(t) == call[t].magic.kind = "raise"
ClassifierReturned(t) == call[t].magic.kind = "return"
Failed(t, exc) == result[t].kind = "raise" /\ result[t].exc = exc
ReturnedDecision(t) == InValidate(t) /\ result[t].kind = "return"
\* the Decision is still as validate_upload returned it
AsReturned(t) == ReturnedDecision(t) /\ ~call[t].touched
IsPrefix(s, full) == Len(s) <= Len(full) /\ s = SubSeq(full, 1, Len(s))
\* the statements of a validate_upload call that runs to line 85, in order
ValidateOrder == <<"buffer_check", "allowlist_check", "detect_buffer_check", "classify">>
DetectionWork == {"detect_buffer_check", "classify"}
SameArguments(t, u) ==
    /\ call[t].blob = call[u].blob
    /\ call[t].allowlistArg = call[u].allowlistArg
    /\ call[t].context = call[u].context

-----------------------------------------------------------------------------
(* Properties *)

\* C1: validate_upload on an empty buffer never returns a Decision and ends in
\* InvalidFileError, whatever the allow-list argument is (None, non-empty, or
\* explicitly empty: the empty-buffer check wins over the empty-allowlist check).
C1_EmptyBufferRaisesInvalidFile ==
    \A t \in Threads :
        InValidate(t) /\ EmptyBuffer(t) =>
            /\ result[t].kind # "return"
            /\ Ended(t) => Failed(t, "InvalidFileError")

C1_Witness ==
    \E t \in Threads :
        /\ InValidate(t) /\ Ended(t) /\ EmptyBuffer(t) /\ EmptyExplicitAllowlist(t)
        /\ Failed(t, "InvalidFileError")

\* C2: detect_file_type on an empty buffer ends in InvalidFileError and the
\* classifier is not invoked at any point of that call.
C2_DetectEmptyBufferNoClassifier ==
    \A t \in Threads :
        InDetect(t) /\ EmptyBuffer(t) =>
            /\ call[t].magicCalls = 0
            /\ call[t].magic = NoResult
            /\ result[t].kind # "return"
            /\ Ended(t) => Failed(t, "InvalidFileError")

C2_Witness ==
    \E t \in Threads :
        InDetect(t) /\ Ended(t) /\ EmptyBuffer(t) /\ Failed(t, "InvalidFileError")

\* C3: validate_upload on a non-empty buffer with an explicitly empty allow-list
\* ends in InvalidConfigError without consulting the classifier, whatever the
\* classifier would do on the buffer, and never returns a Decision.
C3_EmptyAllowlistRaisesInvalidConfig ==
    \A t \in Threads :
        InValidate(t) /\ ~EmptyBuffer(t) /\ EmptyExplicitAllowlist(t) =>
            /\ call[t].magicCalls = 0
            /\ result[t].kind # "return"
            /\ Ended(t) => Failed(t, "InvalidConfigError")

C3_Witness ==
    \E t \in Threads :
        /\ InValidate(t) /\ Ended(t) /\ ~EmptyBuffer(t) /\ EmptyExplicitAllowlist(t)
        /\ magicState = "corrupt_db"
        /\ Failed(t, "InvalidConfigError")

\* C4: with the allow-list omitted, a call on a non-empty buffer whose detection
\* succeeds returns a Decision whose allowed is TRUE exactly when the detected type
\* is one of the ten types DEFAULT_ALLOWLIST is defined with.
C4_DefaultAllowlistIsTheTenTypes ==
    \A t \in Threads :
        /\ InValidate(t) /\ Ended(t) /\ ~EmptyBuffer(t)
        /\ call[t].allowlistArg.none /\ ClassifierReturned(t)
        => /\ result[t].kind = "return"
           /\ result[t].value.allowed
                <=> result[t].value.detected_type \in Range(InitialDefaultAllowlist)

\* C5: a non-empty allow-list A given by the caller replaces the default one:
\* allowed is TRUE if and only if the detected type is a member of A.
C5_CallerAllowlistReplacesDefault ==
    \A t \in Threads :
        ReturnedDecision(t) /\ NonEmptyExplicitAllowlist(t) =>
            /\ result[t].value.detected_type = call[t].magic.value
            /\ result[t].value.allowed
                 <=> result[t].value.detected_type \in Range(call[t].allowlistArg.items)

\* a default type blocked by A, and a type outside the default list permitted by A
C5_Witness ==
    \E t, u \in Threads :
        /\ ReturnedDecision(t) /\ ReturnedDecision(u)
        /\ call[t].allowlistArg = SetArg(<<"application/x-dosexec", "application/pdf">>)
        /\ call[u].allowlistArg = call[t].allowlistArg
        /\ result[t].value.detected_type = "image/png"
        /\ "image/png" \in Range(DEFAULT_ALLOWLIST)
        /\ ~result[t].value.allowed
        /\ result[u].value.detected_type = "application/x-dosexec"
        /\ "application/x-dosexec" \notin Range(DEFAULT_ALLOWLIST)
        /\ result[u].value.allowed

\* C6: a validate_upload call whose buffer is empty, whose explicit allow-list is
\* empty, or whose classifier call errored never has a Decision as its outcome:
\* it ends in a raised failure.
C6_NoFailureBecomesDecision ==
    \A t \in Threads :
        InValidate(t) /\ (EmptyBuffer(t) \/ EmptyExplicitAllowlist(t) \/ ClassifierErrored(t))
        => /\ result[t].kind # "return"
           /\ Ended(t) => result[t].kind = "raise"

C6_Witness ==
    \E t \in Threads :
        /\ InValidate(t) /\ Ended(t) /\ ClassifierErrored(t)
        /\ call[t].allowlistArg.none
        /\ result[t].kind = "raise"

\* C7 (as claimed): whenever the classifier errors on a non-empty buffer,
\* detect_file_type fails with a kind that a handler for InvalidFileError (the
\* empty-buffer kind) does not catch, and neither does one for InvalidConfigError.
C7_ClassifierFailureIsDistinctKind ==
    \A t \in Threads :
        InDetect(t) /\ Ended(t) /\ ~EmptyBuffer(t) /\ ClassifierErrored(t) =>
            /\ result[t].kind = "raise"
            /\ ~IsInstance(result[t].exc, "InvalidFileError")
            /\ ~IsInstance(result[t].exc, "InvalidConfigError")

\* C7 (amended): when the classifier errors on a non-empty buffer, detect_file_type
\* fails; the failure is never InvalidConfigError; it is FileGuardError itself,
\* which a handler for InvalidFileError does not catch, unless the classifier
\* raised its own library exception (MagicException), and then it is
\* InvalidFileError, the kind of the empty-buffer failure.
C7_ClassifierFailureKinds ==
    \A t \in Threads :
        InDetect(t) /\ Ended(t) /\ ~EmptyBuffer(t) /\ ClassifierErrored(t) =>
            /\ result[t].kind = "raise"
            /\ ~IsInstance(result[t].exc, "InvalidConfigError")
            /\ IF IsInstance(call[t].magic.exc, "MagicException")
               THEN result[t].exc = "InvalidFileError"
               ELSE /\ result[t].exc = "FileGuardError"
                    /\ ~IsInstance(result[t].exc, "InvalidFileError")

C7_Witness ==
    \E t, u \in Threads :
        /\ InDetect(t) /\ Ended(t) /\ ~EmptyBuffer(t) /\ ClassifierErrored(t)
        /\ ~IsInstance(call[t].magic.exc, "MagicException")
        /\ Failed(t, "FileGuardError")
        /\ InDetect(u) /\ Ended(u) /\ EmptyBuffer(u) /\ Failed(u, "InvalidFileError")

\* C8: validate_upload with a valid allow-list passes a failure of detect_file_type
\* on unchanged: the failure the nested call raised is the failure of the call,
\* and it has the kind a direct detect_file_type call on the same buffer fails with.
C8_DetectorFailurePropagatesUnchanged ==
    \A t \in Threads :
        InValidate(t) /\ Ended(t) /\ ~EmptyExplicitAllowlist(t) =>
            /\ call[t].inner.kind = "raise" => result[t] = call[t].inner
            /\ \A u \in Threads :
                  /\ InDetect(u) /\ Ended(u) /\ call[u].blob = call[t].blob
                  /\ result[u].kind = "raise"
                  => Failed(t, result[u].exc)

C8_Witness ==
    \E t, u \in Threads :
        /\ InValidate(t) /\ Ended(t) /\ NonEmptyExplicitAllowlist(t)
        /\ InDetect(u) /\ Ended(u) /\ call[u].blob = call[t].blob
        /\ ~EmptyBuffer(t)
        /\ call[t].inner.kind = "raise"
        /\ result[u].kind = "raise" /\ result[t] = result[u]

\* C9: once the classifier has returned a type in a validate_upload call, the
\* call does not fail: it ends with a Decision, for every buffer, allow-list
\* (None or non-empty) and context.
C9_NoFailureAfterDetection ==
    \A t \in Threads :
        InValidate(t) /\ ClassifierReturned(t) =>
            /\ result[t].kind # "raise"
            /\ Ended(t) => result[t].kind = "return"

C9_Witness ==
    \E t \in Threads :
        /\ InValidate(t) /\ Ended(t) /\ ClassifierReturned(t)
        /\ call[t].context = "profile-photo"
        /\ result[t].kind = "return" /\ ~result[t].value.allowed

\* C10: detect_file_type on a non-empty buffer either returns a non-empty string
\* or raises; it never returns the empty string.
C10_DetectNeverReturnsEmptyString ==
    \A t \in Threads :
        InDetect(t) /\ Ended(t) /\ ~EmptyBuffer(t) =>
            \/ result[t].kind = "raise"
            \/ result[t].kind = "return" /\ result[t].value # ""

\* C11: the reason of every Decision validate_upload returns contains the context
\* string the call was given (the default "upload" when none was given), verbatim.
C11_ReasonContainsContext ==
    \A t \in Threads :
        ReturnedDecision(t) => Contains(result[t].value.reason, call[t].context)

C11_Witness ==
    \E t, u \in Threads :
        /\ ReturnedDecision(t) /\ call[t].context = "profile-photo"
        /\ Contains(result[t].value.reason, "profile-photo")
        /\ ReturnedDecision(u) /\ call[u].context = DefaultContext
        /\ Contains(result[u].value.reason, "upload")

\* C12: the reason of every Decision contains the detected type, and the verdict
\* word of its allowed field: "permitted" when allowed, "blocked" when not.
C12_ReasonEmbedsTypeAndVerdict ==
    \A t \in Threads :
        ReturnedDecision(t) =>
            /\ Contains(result[t].value.reason, result[t].value.detected_type)
            /\ result[t].value.allowed => Contains(result[t].value.reason, "permitted")
            /\ ~result[t].value.allowed => Contains(result[t].value.reason, "blocked")

\* the executable offered as a profile photo, and a permitted PNG
C12_Witness ==
    \E t, u \in Threads :
        /\ ReturnedDecision(t) /\ call[t].blob = EXE_HEADER
        /\ call[t].allowlistArg = SetArg(<<"image/png", "image/jpeg">>)
        /\ call[t].context = "profile-photo"
        /\ ~result[t].value.allowed
        /\ Contains(result[t].value.reason, "blocked")
        /\ Contains(result[t].value.reason, "application/x-dosexec")
        /\ ReturnedDecision(u) /\ result[u].value.allowed
        /\ result[u].value.detected_type = "image/png"
        /\ Contains(result[u].value.reason, "permitted")

\* C13: two validate_upload calls with the same buffer, allow-list and context
\* return Decisions equal in all four fields, whatever happened between them.
C13_IdenticalCallsIdenticalDecisions ==
    \A t, u \in Threads :
        AsReturned(t) /\ AsReturned(u) /\ SameArguments(t, u) =>
            result[t].value = result[u].value

\* C15: the allow-list a validate_upload call without allow-list argument works
\* with is the ten default types, in every reachable state.
C15_DefaultAllowlistNeverChanges ==
    \A t \in Threads :
        InValidate(t) /\ call[t].allowlist = "DEFAULT_ALLOWLIST" =>
            Range(Deref(t)) = Range(InitialDefaultAllowlist)

\* C16: a Decision that validate_upload has returned keeps the value of all four
\* fields, the contents of expected_types included, for as long as its caller
\* holds it.
C16_ReturnedDecisionNeverChanges ==
    [][ \A t \in Threads :
            ReturnedDecision(t) /\ call'[t].pc = "done" => result'[t] = result[t] ]_vars

\* C14: with calls of the two threads interleaved in every possible way, each
\* finished call has exactly the outcome (value or failure) the same call has
\* when it runs alone, and no step of a call changes the shared state or
\* anything of the other thread's call.  (A call without allow-list argument is
\* compared while no caller has mutated DEFAULT_ALLOWLIST.)
C14_OutcomeAsWhenRunAlone ==
    \A t \in Threads :
        Ended(t) /\ ~call[t].touched =>
            /\ InDetect(t) => result[t] = DetectAlone(magicState, call[t].blob)
            /\ InValidate(t) /\ (~call[t].allowlistArg.none \/ mutations = 0) =>
                  result[t] = ValidateAlone(magicState, DEFAULT_ALLOWLIST, call[t].blob,
                                            call[t].allowlistArg, call[t].context)

C14_CallStepIsLocal ==
    /\ magicState' = magicState
    /\ DEFAULT_ALLOWLIST' # DEFAULT_ALLOWLIST => call' = call /\ result' = result
    /\ \A t, u \in Threads :
          t # u /\ call'[t] # call[t] => call'[u] = call[u] /\ result'[u] = result[u]

C14_CallsAreIndependent ==
    [] C14_OutcomeAsWhenRunAlone /\ [][C14_CallStepIsLocal]_vars

C14_Witness ==
    \E t, u \in Threads :
        /\ t # u /\ mutations = 0
        /\ ReturnedDecision(t) /\ Ended(t) /\ call[t].allowlistArg.none
        /\ result[t].value.allowed
        /\ InValidate(u) /\ call[u].pc = "v85"
        /\ call[u].blob = call[t].blob
        /\ call[u].allowlist = "arg" /\ ~call[u].allowed

-----------------------------------------------------------------------------
(* The upload handlers of the examples, serving requests on two threads *)

NextHttp ==
    \/ \E t \in Threads, h \in Handlers, p \in BOOLEAN, b \in Blobs :
          CallHandler(t, h, p, b)
    \/ \E t \in Threads : HandlerEntry(t)
    \/ \E t \in Threads : V74(t)
    \/ \E t \in Threads : V77(t)
    \/ \E t \in Threads : V82(t)
    \/ \E t \in Threads : D44(t)
    \/ \E t \in Threads : D48(t)
    \/ \E t \in Threads : V83(t)
    \/ \E t \in Threads : V85(t)
    \/ \E t \in Threads : HandlerRespond(t)
    \/ \E t \in Threads : Drop(t)
    \/ \E x \in AddableTypes : DefaultAdd(x)
    \/ \E x \in DiscardableTypes : DefaultDiscard(x)
    \/ DefaultClear

SpecHttp == Init /\ [][NextHttp]_vars

Responded(t) == call[t].pc = "responded"

\* C17: the example handlers answer an empty upload with 400, a blocked type with
\* 400 and the Decision's reason as the error, an InvalidConfigError with 500, and
\* an allowed Decision with an accepted response that carries the detected type.
C17_HandlersMapOutcomes ==
    /\ \A h \in Handlers :
          HandlerResponse(h, Raise("InvalidConfigError", "Allowlist cannot be empty")).status
             = 500
    /\ \A t \in Threads :
          Responded(t) =>
              LET r == call[t].response IN
              /\ EmptyBuffer(t) => r.status = 400 /\ ~r.accepted
              /\ Failed(t, "InvalidConfigError") => r.status = 500 /\ ~r.accepted
              /\ result[t].kind = "return" /\ ~result[t].value.allowed =>
                    r.status = 400 /\ ~r.accepted /\ r.error = result[t].value.reason
              /\ result[t].kind = "return" /\ result[t].value.allowed =>
                    /\ r.status = 200 /\ r.accepted
                    /\ r.type = result[t].value.detected_type

C17_Witness ==
    \E t, u \in Threads :
        /\ Responded(t) /\ call[t].handler = "django"
        /\ result[t].kind = "return" /\ ~result[t].value.allowed
        /\ call[t].response.status = 400
        /\ call[t].response.error = "Type 'application/x-dosexec' blocked for django-upload"
        /\ Responded(u) /\ call[u].handler = "fastapi"
        /\ result[u].kind = "return" /\ result[u].value.allowed
        /\ call[u].response.status = 200 /\ call[u].response.type = "image/png"

\* C18 (as claimed): whenever the classifier errored during an upload, the
\* handler's response has a 5xx status.
C18_ClassifierFailureIsServerError ==
    \A t \in Threads :
        Responded(t) /\ ClassifierErrored(t) => call[t].response.status >= 500

\* C18 (amended): an upload during which the classifier errored is never
\* accepted; the response is 500 when the classifier raised anything but its own
\* library exception, and 400 when it raised magic.MagicException.
C18_ClassifierFailureResponses ==
    \A t \in Threads :
        Responded(t) /\ ClassifierErrored(t) =>
            /\ ~call[t].response.accepted
            /\ call[t].response.status =
                  (IF IsInstance(call[t].magic.exc, "MagicException") THEN 400 ELSE 500)

C18_Witness ==
    \E t, u \in Threads :
        /\ Responded(t) /\ ClassifierErrored(t) /\ call[t].handler = "fastapi"
        /\ ~IsInstance(call[t].magic.exc, "MagicException")
        /\ call[t].response.status = 500
        /\ Responded(u) /\ ClassifierErrored(u) /\ call[u].handler = "django"
        /\ call[u].response.status = 500

\* C19: in every validate_upload call the empty-buffer check runs first, the
\* allow-list check second and the classifier after both, at most once; a call
\* that fails one of the two input checks has done no detection work, and a
\* classifier failure ends the call (no second attempt).
C19_ChecksBeforeClassifierAtMostOnce ==
    \A t \in Threads :
        InValidate(t) =>
            /\ IsPrefix(call[t].trace, ValidateOrder)
            /\ call[t].magicCalls <= 1
            /\ call[t].magicCalls = 1 <=> "classify" \in Range(call[t].trace)
            /\ EmptyBuffer(t) \/ EmptyExplicitAllowlist(t) =>
                  Range(call[t].trace) \cap DetectionWork = {}
            /\ EmptyBuffer(t) /\ Ended(t) => call[t].trace = <<"buffer_check">>
            /\ ClassifierErrored(t) => Ended(t) /\ result[t].kind = "raise"

C19_Witness ==
    \E t, u \in Threads :
        /\ InValidate(t) /\ Ended(t) /\ ClassifierErrored(t)
        /\ call[t].trace = ValidateOrder /\ call[t].magicCalls = 1
        /\ InValidate(u) /\ Ended(u) /\ ~EmptyBuffer(u) /\ EmptyExplicitAllowlist(u)
        /\ call[u].trace = <<"buffer_check", "allowlist_check">>

\* C20: in every Decision as returned, expected_types is, as a set, the caller's
\* allow-list, or the ten default types when none was given; it has no
\* duplicates; and allowed is TRUE exactly when detected_type is one of its
\* elements.
C20_ExpectedTypesIsAllowlistUsed ==
    \A t \in Threads :
        AsReturned(t) =>
            LET d == result[t].value IN
            /\ Range(d.expected_types) =
                  (IF call[t].allowlistArg.none
                   THEN Range(InitialDefaultAllowlist)
                   ELSE Range(call[t].allowlistArg.items))
            /\ Cardinality(Range(d.expected_types)) = Len(d.expected_types)
            /\ d.allowed <=> d.detected_type \in Range(d.expected_types)

-----------------------------------------------------------------------------
(* Policy, detector and frame properties of the core (Spec) *)

\* C21: every Decision as validate_upload returned it was evaluated against a
\* non-empty allow-list: its expected_types is never empty.
C21_ExpectedTypesNeverEmpty ==
    \A t \in Threads :
        AsReturned(t) => result[t].value.expected_types # <<>>

\* C22: on a non-empty buffer on which the classifier returned, detect_file_type
\* returns exactly the classifier's string, validate_upload returns a Decision
\* whose detected_type is that string, and the two agree on the same buffer.
C22_ClassifierAnswerPassedThrough ==
    \A t \in Threads :
        Ended(t) /\ ~EmptyBuffer(t) /\ ClassifierReturned(t) =>
            /\ call[t].magic = magic_from_buffer(magicState, call[t].blob)
            /\ InDetect(t) => result[t] = Return(call[t].magic.value)
            /\ InValidate(t) =>
                  /\ result[t].kind = "return"
                  /\ result[t].value.detected_type = call[t].magic.value
            /\ \A u \in Threads :
                  /\ InDetect(t) /\ InValidate(u) /\ Ended(u)
                  /\ call[u].blob = call[t].blob /\ result[u].kind = "return"
                  => result[u].value.detected_type = result[t].value

C22_Witness ==
    \E t, u \in Threads :
        /\ InDetect(t) /\ Ended(t) /\ call[t].blob = JUNK_BYTES
        /\ ClassifierReturned(t) /\ call[t].magic.value = "application/octet-stream"
        /\ result[t] = Return("application/octet-stream")
        /\ InValidate(u) /\ Ended(u) /\ call[u].blob = JUNK_BYTES
        /\ result[u].kind = "return"
        /\ result[u].value.detected_type = "application/octet-stream"

\* C27: every failure a detect_file_type or validate_upload call ends in is
\* InvalidFileError, InvalidConfigError or FileGuardError itself, so a handler
\* for FileGuardError catches it; no exception of the classifier escapes as it is.
C27_EveryFailureIsFileGuardError ==
    \A t \in Threads :
        /\ result[t].kind = "raise" =>
              /\ result[t].exc \in {"InvalidFileError", "InvalidConfigError", "FileGuardError"}
              /\ IsInstance(result[t].exc, "FileGuardError")
        /\ Ended(t) /\ ClassifierErrored(t) =>
              /\ result[t].kind = "raise"
              /\ result[t].exc # call[t].magic.exc

C27_Witness ==
    \E t, u \in Threads :
        /\ InDetect(t) /\ Ended(t) /\ ClassifierErrored(t)
        /\ call[t].magic.exc = "OSError"
        /\ Failed(t, "FileGuardError")
        /\ InValidate(u) /\ Ended(u) /\ Failed(u, "InvalidConfigError")

\* the call of thread t is between its entry and its exit
Running(t) == call[t].pc \notin {"idle", "done", "responded"}

\* C28: no step of a detect_file_type or validate_upload call, the one that
\* returns or raises included, changes the default allow-list, the buffer the
\* call was given or the allow-list set the call was given.
C28_CallsModifyNothing ==
    [][ \A t \in Threads :
            Running(t) /\ call'[t] # call[t] =>
                /\ DEFAULT_ALLOWLIST' = DEFAULT_ALLOWLIST
                /\ call'[t].blob = call[t].blob
                /\ call'[t].allowlistArg = call[t].allowlistArg ]_vars

\* a call with the caller's set has returned, a call without one has failed
C28_Witness ==
    \E t, u \in Threads :
        /\ ReturnedDecision(t) /\ Ended(t)
        /\ call[t].allowlistArg = SetArg(<<"image/png", "image/jpeg">>)
        /\ call[t].blob = PNG_HEADER
        /\ InValidate(u) /\ Ended(u) /\ call[u].allowlistArg.none
        /\ result[u].kind = "raise"
        /\ mutations = 0 /\ DEFAULT_ALLOWLIST = InitialDefaultAllowlist

\* C29: expected_types is a copy: an append to the expected_types of a returned
\* Decision changes neither the default allow-list nor any caller's allow-list
\* set nor the other thread's call, and a call that ends after it has the
\* outcome it has when run alone.
C29_AppendIsLocalToDecision ==
    \A t \in Threads :
        call'[t].touched /\ ~call[t].touched =>
            /\ DEFAULT_ALLOWLIST' = DEFAULT_ALLOWLIST
            /\ \A u \in Threads : call'[u].allowlistArg = call[u].allowlistArg
            /\ \A u \in Threads \ {t} : call'[u] = call[u] /\ result'[u] = result[u]

C29_LaterCallsUnaffected ==
    /\ mutations = 0 => DEFAULT_ALLOWLIST = InitialDefaultAllowlist
    /\ \A t, u \in Threads :
          /\ t # u /\ call[t].touched
          /\ InValidate(u) /\ Ended(u) /\ ~call[u].touched
          /\ ~call[u].allowlistArg.none \/ mutations = 0
          => result[u] = ValidateAlone(magicState, InitialDefaultAllowlist, call[u].blob,
                                       call[u].allowlistArg, call[u].context)

C29_ExpectedTypesIsACopy ==
    [] C29_LaterCallsUnaffected /\ [][C29_AppendIsLocalToDecision]_vars

\* a Decision on the default list has been appended to; the other thread's call
\* on the default list then returned the ten types
C29_Witness ==
    \E t, u \in Threads :
        /\ t # u /\ mutations = 0
        /\ call[t].touched /\ call[t].allowlistArg.none
        /\ Len(result[t].value.expected_types) = Len(InitialDefaultAllowlist) + 1
        /\ AsReturned(u) /\ call[u].allowlistArg.none
        /\ result[u].value.expected_types = InitialDefaultAllowlist
        /\ DEFAULT_ALLOWLIST = InitialDefaultAllowlist

-----------------------------------------------------------------------------
(* The core called with unrecognised content and free-form context labels *)

\* buffers: none, a PNG, content no signature matches
LabelBlobs == {<<>>, PNG_HEADER, JUNK_BYTES}

\* the allow-list omitted, or one that names the generic type
LabelAllowlistArgs == {NoneArg, SetArg(<<"application/octet-stream">>)}

\* labels a call site may pass: the empty string, one that contains a verdict word
LabelContexts == {"", "blocked-users"}

GenericTypes == {"application/octet-stream"}

NextLabels ==
    \/ \E t \in Threads, b \in LabelBlobs : CallDetect(t, b)
    \/ \E t \in Threads, b \in LabelBlobs, a \in LabelAllowlistArgs, c \in LabelContexts :
          CallValidate(t, b, a, c)
    \/ \E t \in Threads, b \in LabelBlobs, a \in LabelAllowlistArgs :
          CallValidateNoContext(t, b, a)
    \/ \E t \in Threads : V74(t)
    \/ \E t \in Threads : V77(t)
    \/ \E t \in Threads : V82(t)
    \/ \E t \in Threads : D44(t)
    \/ \E t \in Threads : D48(t)
    \/ \E t \in Threads : V83(t)
    \/ \E t \in Threads : V85(t)
    \/ \E t \in Threads : Drop(t)
    \/ \E x \in GenericTypes : DefaultAdd(x)

SpecLabels == Init /\ [][NextLabels]_vars

EndsWith(s, suffix) ==
    Len(s) >= Len(suffix) /\ SubSeq(s, Len(s) - Len(suffix) + 1, Len(s)) = suffix

ClassifiedGeneric(t) ==
    ClassifierReturned(t) /\ call[t].magic.value = "application/octet-stream"

\* two outcomes that are the same failure, or Decisions equal in allowed,
\* detected_type and expected_types
AgreeButReason(r1, r2) ==
    /\ r1.kind = r2.kind
    /\ r1.kind = "raise" => r1 = r2
    /\ r1.kind = "return" =>
          /\ r1.value.allowed = r2.value.allowed
          /\ r1.value.detected_type = r2.value.detected_type
          /\ r1.value.expected_types = r2.value.expected_types

\* C23: content the classifier resolves to application/octet-stream is not an
\* error and not a special case: detect_file_type returns that type, and
\* validate_upload returns a Decision decided by membership: with the caller's
\* allow-list, allowed exactly when the list names the type; with the allow-list
\* omitted, blocked while the default list is as defined, and never allowed
\* unless the default list names the type.
C23_GenericTypeIsJustAType ==
    \A t \in Threads :
        Ended(t) /\ ClassifiedGeneric(t) =>
            /\ InDetect(t) => result[t] = Return("application/octet-stream")
            /\ InValidate(t) =>
                  /\ result[t].kind = "return"
                  /\ result[t].value.detected_type = "application/octet-stream"
                  /\ ~call[t].allowlistArg.none =>
                        (result[t].value.allowed
                           <=> "application/octet-stream" \in Range(call[t].allowlistArg.items))
                  /\ call[t].allowlistArg.none /\ mutations = 0 => ~result[t].value.allowed
                  /\ call[t].allowlistArg.none /\ result[t].value.allowed =>
                        "application/octet-stream" \in Range(DEFAULT_ALLOWLIST)

C23_Witness ==
    \E t, u \in Threads :
        /\ InValidate(t) /\ Ended(t) /\ ClassifiedGeneric(t)
        /\ call[t].allowlistArg.none /\ mutations = 0
        /\ result[t].kind = "return" /\ ~result[t].value.allowed
        /\ InValidate(u) /\ Ended(u) /\ ClassifiedGeneric(u)
        /\ call[u].allowlistArg = SetArg(<<"application/octet-stream">>)
        /\ result[u].kind = "return" /\ result[u].value.allowed

\* C24: validate_upload never fails because of its context: a call fails only on
\* an empty buffer, an empty explicit allow-list or a classifier error, and
\* returns a Decision for every label, the empty string included; a call that
\* passes no context works with "upload" and its reason ends in that label.
C24_ContextUnvalidatedDefaultsToUpload ==
    \A t \in Threads :
        InValidate(t) =>
            /\ ~call[t].contextGiven => call[t].context = "upload"
            /\ result[t].kind = "raise" =>
                  EmptyBuffer(t) \/ EmptyExplicitAllowlist(t) \/ ClassifierErrored(t)
            /\ Ended(t) /\ ClassifierReturned(t) =>
                  /\ result[t].kind = "return"
                  /\ EndsWith(result[t].value.reason, " for " \o call[t].context)
            /\ ReturnedDecision(t) /\ ~call[t].contextGiven =>
                  EndsWith(result[t].value.reason, " for upload")

C24_Witness ==
    \E t, u \in Threads :
        /\ ReturnedDecision(t) /\ call[t].contextGiven /\ call[t].context = ""
        /\ EndsWith(result[t].value.reason, " for ")
        /\ ReturnedDecision(u) /\ ~call[u].contextGiven
        /\ EndsWith(result[u].value.reason, " for upload")

\* C25: context influences only the reason.  From any reachable condition of the
\* classifier and the default list, validate_upload on the same buffer and
\* allow-list with two different contexts gives the same failure, or Decisions
\* equal in allowed, detected_type and expected_types; and so do two finished
\* calls of the two threads that differ only in context (calls without
\* allow-list argument compared while no caller has mutated DEFAULT_ALLOWLIST).
C25_ContextNonInterference ==
    /\ \A b \in LabelBlobs, a \in LabelAllowlistArgs \cup {SetArg(<<>>)} :
          \A c1, c2 \in LabelContexts \cup {DefaultContext} :
              AgreeButReason(ValidateAlone(magicState, DEFAULT_ALLOWLIST, b, a, c1),
                             ValidateAlone(magicState, DEFAULT_ALLOWLIST, b, a, c2))
    /\ \A t, u \in Threads :
          /\ InValidate(t) /\ Ended(t) /\ InValidate(u) /\ Ended(u)
          /\ call[t].blob = call[u].blob
          /\ call[t].allowlistArg = call[u].allowlistArg
          /\ ~call[t].allowlistArg.none \/ mutations = 0
          => AgreeButReason(result[t], result[u])

C25_Witness ==
    \E t, u \in Threads :
        /\ ReturnedDecision(t) /\ ReturnedDecision(u)
        /\ call[t].blob = call[u].blob
        /\ call[t].allowlistArg = call[u].allowlistArg
        /\ call[t].context = "" /\ call[u].context = "blocked-users"
        /\ result[t].value.allowed /\ result[u].value.allowed
        /\ result[t].value.reason # result[u].value.reason

\* C26: the reason of a Decision with allowed = FALSE does not contain
\* "permitted", and the reason of one with allowed = TRUE does not contain
\* "blocked", for every buffer, allow-list and context.
C26_VerdictWordUnambiguous ==
    \A t \in Threads :
        ReturnedDecision(t) =>
            /\ ~result[t].value.allowed => ~Contains(result[t].value.reason, "permitted")
            /\ result[t].value.allowed => ~Contains(result[t].value.reason, "blocked")

-----------------------------------------------------------------------------
(* The upload handlers as a gate (SpecHttp) *)

\* C30: an upload handler answers "accepted" only when its validate_upload call
\* on the uploaded content returned a Decision with allowed = TRUE; a request
\* without file, a failure of the call and a blocked Decision all end in an
\* error response.
C30_AcceptedOnlyIfAdmitted ==
    \A t \in Threads :
        Responded(t) =>
            /\ call[t].response.accepted =>
                  /\ call[t].filePresent
                  /\ call[t].magic = magic_from_buffer(magicState, call[t].blob)
                  /\ result[t].kind = "return"
                  /\ result[t].value.allowed
                  /\ result[t].value.detected_type = call[t].magic.value
            /\ result[t].kind # "return" \/ ~result[t].value.allowed =>
                  /\ ~call[t].response.accepted
                  /\ call[t].response.status >= 400

C30_Witness ==
    \E t, u \in Threads :
        /\ Responded(t) /\ call[t].response.accepted
        /\ call[t].blob = PNG_HEADER /\ result[t].value.allowed
        /\ Responded(u) /\ call[u].filePresent /\ result[u].kind = "raise"
        /\ ~call[u].response.accepted /\ call[u].response.status = 400

====
